---- MODULE Spec2Model ----
(***************************************************************************)
(* Model of the scrape orchestrator of hospital-price-transparency:        *)
(* scripts/scrape.py (main, _process_hospital_with_timeout,                *)
(* _worker_process, write_state_status), src/models.py (ScrapeResult,      *)
(* ScrapeStats), src/scrapers/base.py (BaseScraper.scrape, _save_jsonl)    *)
(* and src/utils/http_client.py (stream_to_tempfile).                      *)
(***************************************************************************)
EXTENDS Integers, Sequences, FiniteSets, TLC

\* ------------------------------------------------------------------ bounds
NumHospitals == 2      \* hospitals in the loaded catalog slice
MaxRecords == 1        \* rows of a normalised table that is not empty
MaxAgeDays == 1        \* --max-age-days is 0 (off) or MaxAgeDays
MaxExcess == 1         \* an exception text is up to this much longer than the cut
MaxRuns == 2           \* consecutive orchestrator runs in the rerun specification

\* --------------------------------------------------------- program constants
ErrorMessageMaxLen == 500   \* str(error)[:500]
TerminateGrace == 5         \* process.join(timeout=5)
KillGrace == 2              \* process.join(timeout=2)

Hospitals == 1..NumHospitals

\* The catalog: hospital h is loaded from the state file of StateOf(h);
\* the list keeps the order of the files.
StateOf(h) == IF h % 2 = 1 THEN "VT" ELSE "NH"
States == {StateOf(h) : h \in Hospitals}

Min(a, b) == IF a < b THEN a ELSE b

\* --------------------------------------------------------------- texts
\* A text is modelled by what it says and by its length.
Text(kind, len) == [kind |-> kind, len |-> len]
NoText == Text("None", 0)

\* Exceptions a worker can meet, by the place that raises them.
ExcLens == {ErrorMessageMaxLen, ErrorMessageMaxLen + MaxExcess}
Exc(cls, kind, len) == [cls |-> cls, text |-> Text(kind, len)]
WorkerErrors == {Exc("ValueError", "worker error", n) : n \in ExcLens}
StartErrors == {Exc("OSError", "start", 0)}

\* ------------------------------------------------------- ScrapeResult
NoRecords == -1

ScrapeResult(status, records, etype, emsg, ccn) ==
  [status |-> status, records_scraped |-> records,
   error_type |-> etype, error_message |-> emsg, ccn |-> ccn]

\* ScrapeResult.success
SuccessResult(records, ccn) ==
  ScrapeResult("SUCCESS", records, "None", NoText, ccn)

Truncate_Off(text) == text

\* str(error)[:500]
Truncate(text) == Text(text.kind, Min(text.len, ErrorMessageMaxLen))

\* ScrapeResult.failure
FailureResult(error, ccn) ==
  ScrapeResult("FAILURE", NoRecords, error.cls, Truncate(error.text), ccn)

SkippedResult_AsFailure(reason, ccn) ==
  ScrapeResult("FAILURE", NoRecords, "None", reason, ccn)

\* ScrapeResult.skipped
SkippedResult(reason, ccn) ==
  ScrapeResult("SKIPPED", NoRecords, "None", reason, ccn)

NoResult == [status |-> "None"]

\* the tuple a worker puts on its queue and the parent hands to main
Reply(h, result, message) == [hospital |-> h, result |-> result, message |-> message]

\* ------------------------------------------------------- ScrapeStats
NewStats == [total_hospitals |-> 0, successful |-> 0, failed |-> 0,
             skipped |-> 0, total_records |-> 0]

add_result_SkipsUncounted(s, result) ==
  [total_hospitals |-> s.total_hospitals + 1,
   successful |-> s.successful + (IF result.status = "SUCCESS" THEN 1 ELSE 0),
   failed |-> s.failed + (IF result.status = "FAILURE" THEN 1 ELSE 0),
   skipped |-> s.skipped,
   total_records |-> s.total_records +
      (IF result.status = "SUCCESS" /\ result.records_scraped # NoRecords
       THEN result.records_scraped ELSE 0)]

\* ScrapeStats.add_result
add_result(s, result) ==
  [total_hospitals |-> s.total_hospitals + 1,
   successful |-> s.successful + (IF result.status = "SUCCESS" THEN 1 ELSE 0),
   failed |-> s.failed + (IF result.status = "FAILURE" THEN 1 ELSE 0),
   skipped |-> s.skipped + (IF result.status = "SKIPPED" THEN 1 ELSE 0),
   total_records |-> s.total_records +
      (IF result.status = "SUCCESS" /\ result.records_scraped # NoRecords
       THEN result.records_scraped ELSE 0)]

\* ------------------------------------------------------- files
NoFile == [exists |-> FALSE, lines |-> 0, mtime |-> 0]
File(lines, mtime) == [exists |-> TRUE, lines |-> lines, mtime |-> mtime]

VARIABLES
  cfg,               \* the command line: parallel, validate_only, dry_run, max_age_days
  phase,             \* main: "running", "done" (end of run reached), "aborted"
  task,              \* h -> where _process_hospital_with_timeout(h) stands
  worker,            \* h -> the worker process of h
  queue,             \* h -> result_queue of h
  ret,               \* h -> what the call for h returned or raised
  calls,             \* h -> the parent's calls on the process after the timeout
  started,           \* h -> how often _process_hospital_with_timeout(h) was entered
  results_by_state,  \* state -> list of <<h, result>>
  stats,             \* ScrapeStats
  outFile,           \* h -> data/<STATE>/<CCN>.jsonl
  tempFiles,         \* hospitals whose mkstemp file is on disk
  statusFiles,       \* state -> rows of status/<STATE>.csv, <<>> when not written
  exitCode,          \* -1 while the process runs
  now,               \* the day
  run,               \* number of the orchestrator run
  prev               \* the previous run: its day, whether it reached its end, h -> status

\* The variables of the parts that are verified on their own, outside a
\* run of the orchestrator: they rest while the orchestrator runs.
VARIABLES
  urlFiles,          \* state -> entries of dim/urls/<state>.json
  hospitals,         \* the list load_hospital_configs_from_urls returned
  writer,            \* index of hospitals -> where the task of that entry stands
  registry,          \* one lookup of ScraperRegistry.get_scraper_class
  http,              \* one call of RetryHTTPClient.get
  norm,              \* one call of CPTNormalizer.normalize
  scraper            \* one fetch_data and parse_data of an extractor

libVars == <<urlFiles, hospitals, writer, registry, http, norm, scraper>>

\* a part that is not exercised
Idle == [pc |-> "idle"]

LoaderIdle ==
  /\ urlFiles = <<>>
  /\ hospitals = <<>>
  /\ writer = <<>>

LibIdle ==
  /\ LoaderIdle
  /\ registry = Idle
  /\ http = Idle
  /\ norm = Idle
  /\ scraper = Idle

vars == <<cfg, phase, task, worker, queue, ret, calls, started, results_by_state,
          stats, outFile, tempFiles, statusFiles, exitCode, now, run, prev, libVars>>

\* ------------------------------------------------------- worker process
NoWorker == [pc |-> "none", http |-> FALSE, vocab |-> FALSE, records |-> 0]

Alive(w) == w.pc \notin {"none", "exited"}

\* the worker of h runs: started, not finished, not signalled
Running(h) == Alive(worker[h]) /\ task[h] = "joining"

TypeOK ==
  /\ phase \in {"running", "done", "aborted"}
  /\ \A h \in Hospitals :
       /\ task[h] \in {"queued", "joining", "returned", "raised", "recorded"}
       /\ Len(queue[h]) <= 1
       /\ started[h] \in 0..1

\* The worker puts its reply on the queue; only the process exit is left.
Put(h, result, message) ==
  /\ queue' = [queue EXCEPT ![h] = Append(@, Reply(h, result, message))]
  /\ worker' = [worker EXCEPT ![h].pc = "put"]

\* get_data_age_days: age in days of the output file, NoAge without one
NoAge == -1
get_data_age_days(h) ==
  IF outFile[h].exists THEN now - outFile[h].mtime ELSE NoAge

\* the two conditions of the incremental-scraping check
AgeCheckEnabled(c) == c.max_age_days > 0 /\ ~c.validate_only

FreshEnough_Flipped(data_age, max_age_days) ==
  data_age # NoAge /\ data_age > max_age_days
FreshEnough(data_age, max_age_days) == data_age # NoAge /\ data_age < max_age_days

\* f"Data is {data_age:.1f} days old (max age: {max_age_days})"
DataAgeReason(data_age, max_age_days) ==
  [kind |-> "Data is days old", len |-> 34, age |-> data_age, max_age |-> max_age_days]

\* the incremental scraping check lets the worker skip the hospital
SkipsForAge(h) ==
  AgeCheckEnabled(cfg) /\ FreshEnough(get_data_age_days(h), cfg.max_age_days)

\* Each worker action below is one path of _worker_process from one effect
\* outside the worker's memory to the next. A worker that does not skip for
\* age creates its RetryHTTPClient and reads the vocabulary (main has
\* verified that the file exists) before it branches on the mode.

\* _worker_process: the incremental scraping check skips
WorkerAgeCheck(h) ==
  /\ Running(h) /\ worker[h].pc = "start" /\ SkipsForAge(h)
  /\ Put(h, SkippedResult(DataAgeReason(get_data_age_days(h), cfg.max_age_days), h), "~ Skipped")
  /\ UNCHANGED <<cfg, phase, task, ret, calls, started, results_by_state, stats,
                 outFile, tempFiles, statusFiles, exitCode, now, run, prev, libVars>>

\* _worker_process: validate_only branch (check_url never raises)
WorkerValidate(h) ==
  /\ Running(h) /\ worker[h].pc = "start" /\ ~SkipsForAge(h) /\ cfg.validate_only
  /\ \E accessible \in BOOLEAN :
       /\ queue' = [queue EXCEPT ![h] = Append(@,
            Reply(h, ScrapeResult(IF accessible THEN "SUCCESS" ELSE "FAILURE",
                                  NoRecords, "None",
                                  IF accessible THEN NoText ELSE Text("HTTP status", 8), h),
                  IF accessible THEN "+ URL" ELSE "x URL"))]
       /\ worker' = [worker EXCEPT ![h].pc = "put", ![h].vocab = TRUE, ![h].http = TRUE]
  /\ UNCHANGED <<cfg, phase, task, ret, calls, started, results_by_state, stats,
                 outFile, tempFiles, statusFiles, exitCode, now, run, prev, libVars>>

\* _worker_process: get_scraper returned None
WorkerNoScraper(h) ==
  /\ Running(h) /\ worker[h].pc = "start" /\ ~SkipsForAge(h) /\ ~cfg.validate_only
  /\ queue' = [queue EXCEPT ![h] = Append(@,
       Reply(h, SkippedResult(Text("No scraper for format", 26), h), "- Skipped"))]
  /\ worker' = [worker EXCEPT ![h].pc = "put", ![h].vocab = TRUE]
  /\ UNCHANGED <<cfg, phase, task, ret, calls, started, results_by_state, stats,
                 outFile, tempFiles, statusFiles, exitCode, now, run, prev, libVars>>

\* fetch_data: a plain download, or a large file streamed to a temp file by
\* stream_to_tempfile; or the request fails before any temp file is made
WorkerFetch(h) ==
  /\ Running(h) /\ worker[h].pc = "start" /\ ~SkipsForAge(h) /\ ~cfg.validate_only
  /\ \/ /\ \E large \in BOOLEAN :
             tempFiles' = IF large THEN tempFiles \cup {h} ELSE tempFiles
        /\ worker' = [worker EXCEPT ![h].pc = "fetched", ![h].vocab = TRUE, ![h].http = TRUE]
        /\ UNCHANGED queue
     \/ \E e \in WorkerErrors :
          /\ queue' = [queue EXCEPT ![h] = Append(@,
               Reply(h, FailureResult(e, h), IF cfg.dry_run THEN "x Error" ELSE "x Failed"))]
          /\ worker' = [worker EXCEPT ![h].pc = "put", ![h].vocab = TRUE, ![h].http = TRUE]
          /\ UNCHANGED tempFiles
  /\ UNCHANGED <<cfg, phase, task, ret, calls, started, results_by_state, stats,
                 outFile, statusFiles, exitCode, now, run, prev, libVars>>

\* _save_jsonl: the file is written only when there is a valid record
\* (every normalised row passes PriceRecord: same code pattern, price >= 0)
save_jsonl(file, records, day) ==
  IF records > 0 THEN File(records, day) ELSE file

\* row counts a normalised table can have: none, or MaxRecords
RecordCounts == {0, MaxRecords}

\* parse_data, normalize and, in a full scrape, _save_jsonl. The finally
\* clause of the large-file parsers unlinks the temp file whether parsing
\* succeeds or raises; between the unlink and the save the worker changes
\* nothing outside its own memory.
WorkerParse(h) ==
  /\ Running(h) /\ worker[h].pc = "fetched"
  /\ tempFiles' = tempFiles \ {h}
  /\ \/ \E n \in RecordCounts :
          /\ worker' = [worker EXCEPT ![h].pc = "saved", ![h].records = n]
          /\ outFile' = [outFile EXCEPT ![h] =
                           IF cfg.dry_run THEN @ ELSE save_jsonl(@, n, now)]
          /\ UNCHANGED queue
     \/ /\ \E e \in WorkerErrors :
             Put(h, FailureResult(e, h), IF cfg.dry_run THEN "x Error" ELSE "x Failed")
        /\ UNCHANGED outFile
  /\ UNCHANGED <<cfg, phase, task, ret, calls, started, results_by_state, stats,
                 statusFiles, exitCode, now, run, prev, libVars>>

\* the success reply of a full scrape or of a dry run
WorkerSuccess(h) ==
  /\ Running(h) /\ worker[h].pc = "saved"
  /\ Put(h, SuccessResult(worker[h].records, h),
         IF cfg.dry_run THEN "+ Dry run" ELSE "+ Success")
  /\ UNCHANGED <<cfg, phase, task, ret, calls, started, results_by_state, stats,
                 outFile, tempFiles, statusFiles, exitCode, now, run, prev, libVars>>

\* the worker returns and its process ends
WorkerExit(h) ==
  /\ Running(h) /\ worker[h].pc = "put"
  /\ worker' = [worker EXCEPT ![h] = [NoWorker EXCEPT !.pc = "exited"]]
  /\ UNCHANGED <<cfg, phase, task, queue, ret, calls, started, results_by_state, stats,
                 outFile, tempFiles, statusFiles, exitCode, now, run, prev, libVars>>

\* the process dies without a reply (killed by the OS, fault in a native parser)
WorkerCrash(h) ==
  /\ Running(h) /\ worker[h].pc # "put"
  /\ worker' = [worker EXCEPT ![h] = [NoWorker EXCEPT !.pc = "exited"]]
  /\ UNCHANGED <<cfg, phase, task, queue, ret, calls, started, results_by_state, stats,
                 outFile, tempFiles, statusFiles, exitCode, now, run, prev, libVars>>

\* ------------------------------------------- _process_hospital_with_timeout
TimeoutError == Exc("TimeoutError", "Killed after timeout", 26)
WorkerCrashedError == Exc("RuntimeError", "Worker process crashed", 22)

\* the FAILURE the parent builds after the timeout branch
TimeoutReply(h) == Reply(h, FailureResult(TimeoutError, h), "T Killed")

QueueReply_TimeoutOnEmpty(h, q) ==
  IF q # <<>> THEN Head(q) ELSE TimeoutReply(h)

\* result_queue.get_nowait(), and the except clause for an empty queue
QueueReply(h, q) ==
  IF q # <<>> THEN Head(q)
  ELSE Reply(h, FailureResult(WorkerCrashedError, h), "! Worker crashed")

InFlight(h) == task[h] = "joining"

\* main starts the hospitals in catalog order: one at a time when
\* parallel <= 1, else whenever one of the pool's workers is free
MayStart(h) ==
  /\ phase = "running" /\ task[h] = "queued"
  /\ \A g \in Hospitals : g < h => task[g] # "queued"
  /\ IF cfg.parallel <= 1
     THEN \A g \in Hospitals : g < h => task[g] = "recorded"
     ELSE Cardinality({g \in Hospitals : InFlight(g)}) < cfg.parallel

\* process.start(); the parent then waits in process.join(timeout)
Start(h) ==
  /\ MayStart(h)
  /\ task' = [task EXCEPT ![h] = "joining"]
  /\ worker' = [worker EXCEPT ![h] = [NoWorker EXCEPT !.pc = "start"]]
  /\ started' = [started EXCEPT ![h] = @ + 1]
  /\ UNCHANGED <<cfg, phase, queue, ret, calls, results_by_state, stats, outFile,
                 tempFiles, statusFiles, exitCode, now, run, prev, libVars>>

\* What an exception leaving _process_hospital_with_timeout does to main:
\* the sequential loop has no handler, the pool's future keeps the exception.
Propagates(c) == c.parallel <= 1

\* process.start() raises (no process could be created)
StartRaises(h) ==
  /\ MayStart(h)
  /\ started' = [started EXCEPT ![h] = @ + 1]
  /\ \E e \in StartErrors :
       IF Propagates(cfg)
       THEN /\ phase' = "aborted"
            /\ exitCode' = 1
            /\ UNCHANGED <<task, ret>>
       ELSE /\ task' = [task EXCEPT ![h] = "raised"]
            /\ ret' = [ret EXCEPT ![h] = e]
            /\ UNCHANGED <<phase, exitCode>>
  /\ UNCHANGED <<cfg, worker, queue, calls, results_by_state, stats, outFile,
                 tempFiles, statusFiles, now, run, prev, libVars>>

\* join(timeout) returned with the worker gone: read the queue; the call
\* returns and its Process and Queue objects are dropped
JoinReturns(h) ==
  /\ task[h] = "joining" /\ worker[h].pc = "exited"
  /\ ret' = [ret EXCEPT ![h] = QueueReply(h, queue[h])]
  /\ queue' = [queue EXCEPT ![h] = IF @ = <<>> THEN @ ELSE Tail(@)]
  /\ task' = [task EXCEPT ![h] = "returned"]
  /\ worker' = [worker EXCEPT ![h] = NoWorker]
  /\ UNCHANGED <<cfg, phase, calls, started, results_by_state, stats, outFile,
                 tempFiles, statusFiles, exitCode, now, run, prev, libVars>>

NeedsKill_Always(alive) == TRUE

\* kill() is called only when is_alive() still holds after the grace
NeedsKill(alive) == alive

\* the parent's calls on the process in the timeout branch, with what
\* is_alive() answered after the first join
TimeoutCalls(alive) ==
  <<"terminate", "join", TerminateGrace, IF alive THEN "alive" ELSE "gone">>
  \o (IF NeedsKill(alive) THEN <<"kill", "join", KillGrace>> ELSE <<>>)

\* join(timeout) returned with the worker alive: the whole timeout branch.
\* A signalled worker runs no more code; both joins are bounded, so the
\* call returns whether or not the worker is gone.
Timeout(h) ==
  /\ task[h] = "joining" /\ Alive(worker[h])
  /\ \E alive \in BOOLEAN : calls' = [calls EXCEPT ![h] = TimeoutCalls(alive)]
  /\ worker' = [worker EXCEPT ![h] = NoWorker]
  /\ ret' = [ret EXCEPT ![h] = TimeoutReply(h)]
  /\ queue' = [queue EXCEPT ![h] = <<>>]
  /\ task' = [task EXCEPT ![h] = "returned"]
  /\ UNCHANGED <<cfg, phase, started, results_by_state, stats, outFile,
                 tempFiles, statusFiles, exitCode, now, run, prev, libVars>>

\* ------------------------------------------------------------------ main
\* the result main records for a finished call: the returned one, or the
\* FAILURE built in the except clause of the parallel loop
RecordedResult(h) ==
  IF task[h] = "raised" THEN FailureResult(ret[h], h) ELSE ret[h].result

\* main: the loop body after the call (sequential) or after future.result()
Record(h) ==
  /\ phase = "running" /\ task[h] \in {"returned", "raised"}
  /\ results_by_state' = [results_by_state EXCEPT
        ![StateOf(h)] = Append(@, <<h, RecordedResult(h)>>)]
  /\ stats' = add_result(stats, RecordedResult(h))
  /\ task' = [task EXCEPT ![h] = "recorded"]
  /\ ret' = [ret EXCEPT ![h] = NoResult]
  /\ calls' = [calls EXCEPT ![h] = <<>>]
  /\ UNCHANGED <<cfg, phase, worker, queue, started, outFile, tempFiles,
                 statusFiles, exitCode, now, run, prev, libVars>>

\* write_state_status: one row per result of the bucket
StatusRows(bucket) ==
  [i \in 1..Len(bucket) |->
     [ccn |-> bucket[i][1], status |-> bucket[i][2].status,
      records |-> bucket[i][2].records_scraped,
      error_type |-> bucket[i][2].error_type,
      error_message |-> bucket[i][2].error_message]]

ExitCodeOf_AnyNonSuccess(s) == IF s.failed + s.skipped > 0 THEN 1 ELSE 0

\* sys.exit(1) if stats.failed > 0
ExitCodeOf(s) == IF s.failed > 0 THEN 1 ELSE 0

WritesStatusFiles_Always(dry_run) == TRUE

\* if not dry_run: (the status files are written)
WritesStatusFiles(dry_run) == ~dry_run

\* main after the loop: status files (unless dry run), summary, exit code
EndOfRun ==
  /\ phase = "running"
  /\ \A h \in Hospitals : task[h] = "recorded"
  /\ statusFiles' = IF ~WritesStatusFiles(cfg.dry_run) THEN statusFiles
                    ELSE [s \in States |->
                            IF results_by_state[s] # <<>>
                            THEN StatusRows(results_by_state[s]) ELSE statusFiles[s]]
  /\ exitCode' = ExitCodeOf(stats)
  /\ phase' = "done"
  /\ UNCHANGED <<cfg, task, worker, queue, ret, calls, started, results_by_state, stats,
                 outFile, tempFiles, now, run, prev, libVars>>

\* ------------------------------------------------------------- the system
Configs ==
  [parallel : 1..2, validate_only : BOOLEAN, dry_run : BOOLEAN,
   max_age_days : {0, MaxAgeDays}]

\* The data directory at the start: empty, or holding the files an earlier
\* run wrote on day 0 for every hospital but the last of the catalog. The
\* run happens on that day or max_age_days later (the first age that is no
\* longer fresh).
InitialFiles ==
  {[h \in Hospitals |-> IF h <= k THEN File(MaxRecords, 0) ELSE NoFile] :
     k \in {0, NumHospitals - 1}}

NoRun == [day |-> 0, completed |-> FALSE, status |-> [h \in Hospitals |-> "None"]]

Init ==
  /\ cfg \in Configs
  /\ phase = "running"
  /\ task = [h \in Hospitals |-> "queued"]
  /\ worker = [h \in Hospitals |-> NoWorker]
  /\ queue = [h \in Hospitals |-> <<>>]
  /\ ret = [h \in Hospitals |-> NoResult]
  /\ calls = [h \in Hospitals |-> <<>>]
  /\ started = [h \in Hospitals |-> 0]
  /\ results_by_state = [s \in States |-> <<>>]
  /\ stats = NewStats
  /\ outFile \in InitialFiles
  /\ tempFiles = {}
  /\ statusFiles = [s \in States |-> <<>>]
  /\ exitCode = -1
  /\ now \in {0, cfg.max_age_days}
  /\ run = 1
  /\ prev = NoRun
  /\ LibIdle

WorkerStep(h) ==
  \/ WorkerAgeCheck(h)
  \/ WorkerValidate(h)
  \/ WorkerNoScraper(h)
  \/ WorkerFetch(h)
  \/ WorkerParse(h)
  \/ WorkerSuccess(h)
  \/ WorkerExit(h)
  \/ WorkerCrash(h)

ParentStep(h) ==
  \/ Start(h)
  \/ StartRaises(h)
  \/ JoinReturns(h)
  \/ Timeout(h)
  \/ Record(h)

Next ==
  \/ \E h \in Hospitals : WorkerStep(h)
  \/ \E h \in Hospitals : ParentStep(h)
  \/ EndOfRun

Spec == Init /\ [][Next]_vars

\* ------------------------------------------------------- consecutive runs
\* the <<h, result>> entries recorded in this run, and the results of h
Recorded ==
  UNION {{results_by_state[s][i] : i \in 1..Len(results_by_state[s])} : s \in States}
ResultsOf(h) == {e[2] : e \in {x \in Recorded : x[1] = h}}
StatusOf(h) ==
  IF ResultsOf(h) = {} THEN "None" ELSE (CHOOSE r \in ResultsOf(h) : TRUE).status

\* The orchestrator is run again with the same command line, on the same
\* day or on the next one; data/, status/ and the temp directory persist.
NextRun ==
  /\ phase \in {"done", "aborted"} /\ run < MaxRuns
  /\ \E d \in 0..1 : now' = now + d
  /\ prev' = [day |-> now, completed |-> (phase = "done"),
              status |-> [h \in Hospitals |-> StatusOf(h)]]
  /\ run' = run + 1
  /\ phase' = "running"
  /\ task' = [h \in Hospitals |-> "queued"]
  /\ worker' = [h \in Hospitals |-> NoWorker]
  /\ queue' = [h \in Hospitals |-> <<>>]
  /\ ret' = [h \in Hospitals |-> NoResult]
  /\ calls' = [h \in Hospitals |-> <<>>]
  /\ started' = [h \in Hospitals |-> 0]
  /\ results_by_state' = [s \in States |-> <<>>]
  /\ stats' = NewStats
  /\ exitCode' = -1
  /\ UNCHANGED <<cfg, outFile, tempFiles, statusFiles, libVars>>

NextRerun == Next \/ NextRun

\* consecutive runs are explored for the sequential orchestrator
InitRerun == Init /\ cfg.parallel = 1

SpecRerun == InitRerun /\ [][NextRerun]_vars

\* ------------------------------------------- the parts verified on their own
orchVars == <<cfg, phase, task, worker, queue, ret, calls, started, results_by_state,
              stats, outFile, tempFiles, statusFiles, exitCode, now, run, prev>>

\* the orchestrator rests: a default command line, nothing started
OrchIdle ==
  /\ cfg = [parallel |-> 1, validate_only |-> FALSE, dry_run |-> FALSE, max_age_days |-> 0]
  /\ phase = "running"
  /\ task = [h \in Hospitals |-> "queued"]
  /\ worker = [h \in Hospitals |-> NoWorker]
  /\ queue = [h \in Hospitals |-> <<>>]
  /\ ret = [h \in Hospitals |-> NoResult]
  /\ calls = [h \in Hospitals |-> <<>>]
  /\ started = [h \in Hospitals |-> 0]
  /\ results_by_state = [s \in States |-> <<>>]
  /\ stats = NewStats
  /\ outFile = [h \in Hospitals |-> NoFile]
  /\ tempFiles = {}
  /\ statusFiles = [s \in States |-> <<>>]
  /\ exitCode = -1
  /\ now = 0
  /\ run = 1
  /\ prev = NoRun

\* ------------------------------------------------ catalog loader and writers
exceptLoader == <<orchVars, registry, http, norm, scraper>>

MaxEntries == 2        \* entries of one dim/urls/<state>.json
PoolSize == 2          \* --parallel of the run that processes the catalog

\* the state files, in the order the loader reads them
UrlStates == <<"NH", "VT">>

\* CCNs an entry can carry: none, six digits, six characters with a letter
DigitCcns == {"470001"}
LetterCcns == {"47A001"}
Ccns == {""} \cup DigitCcns \cup LetterCcns
FileUrls == {"", "https://h/prices.csv"}
UrlEntries == [ccn : Ccns, file_url : FileUrls]

\* HospitalConfig(**config_dict): validate_ccn wants six alphanumeric
\* characters, validate_npi wants ccn.zfill(10) to be ten digits; an entry
\* that fails is logged and left out
CcnText(ccn) ==
  CASE ccn = "470001" -> <<"4", "7", "0", "0", "0", "1">>
    [] ccn = "47A001" -> <<"4", "7", "A", "0", "0", "1">>
    [] OTHER -> <<>>

DigitChars == {"0", "1", "2", "3", "4", "5", "6", "7", "8", "9"}
isdigit(text) == text # <<>> /\ \A i \in 1..Len(text) : text[i] \in DigitChars
isalnum(text) == text # <<>> /\ \A i \in 1..Len(text) : text[i] \in DigitChars \cup {"A"}

\* str.zfill(width)
zfill(text, width) ==
  IF Len(text) >= width THEN text
  ELSE [i \in 1..width |-> IF i <= width - Len(text) THEN "0"
                                                    ELSE text[i - (width - Len(text))]]

validate_ccn(text) == Len(text) = 6 /\ isalnum(text)
validate_npi(text) == isdigit(text) /\ Len(text) = 10

ValidHospitalConfig(entry) ==
  /\ validate_ccn(CcnText(entry.ccn))
  /\ validate_npi(zfill(CcnText(entry.ccn), 10))

\* the entry passes the two `continue` tests and the validation
LoaderKeeps(entry) ==
  entry.ccn # "" /\ entry.file_url # "" /\ ValidHospitalConfig(entry)

HospitalConfig(state, entry) ==
  [state |-> state, ccn |-> entry.ccn, file_url |-> entry.file_url]

\* the configs of one state file, in the order of its entries
StateConfigs(state, entries) ==
  LET kept == SelectSeq(entries, LoaderKeeps)
  IN [i \in 1..Len(kept) |-> HospitalConfig(state, kept[i])]

RECURSIVE LoadFrom(_, _)
LoadFrom(files, i) ==
  IF i > Len(UrlStates) THEN <<>>
  ELSE StateConfigs(UrlStates[i], files[UrlStates[i]]) \o LoadFrom(files, i + 1)

\* load_hospital_configs_from_urls without state or CCN filter
load_hospital_configs_from_urls(files) == LoadFrom(files, 1)

\* get_output_path: data/<STATE>/<CCN>.jsonl
get_output_path(hospital) == <<"data", hospital.state, hospital.ccn>>

EntryLists == UNION {[1..n -> UrlEntries] : n \in 0..MaxEntries}

InitLoader ==
  /\ OrchIdle
  /\ registry = Idle /\ http = Idle /\ norm = Idle /\ scraper = Idle
  /\ urlFiles \in [{UrlStates[i] : i \in 1..Len(UrlStates)} -> EntryLists]
  /\ hospitals = <<>>
  /\ writer = <<>>

\* main: load the catalog and submit one task per hospital
LoadCatalog ==
  /\ hospitals = <<>> /\ writer = <<>>
  /\ load_hospital_configs_from_urls(urlFiles) # <<>>
  /\ hospitals' = load_hospital_configs_from_urls(urlFiles)
  /\ writer' = [i \in 1..Len(hospitals') |-> "queued"]
  /\ UNCHANGED <<urlFiles, exceptLoader>>

Busy(i) == writer[i] \in {"scraping", "saving"}

\* a free pool worker takes the next task of the list
TaskStart(i) ==
  /\ writer[i] = "queued"
  /\ \A j \in 1..(i - 1) : writer[j] # "queued"
  /\ Cardinality({j \in DOMAIN writer : Busy(j)}) < PoolSize
  /\ writer' = [writer EXCEPT ![i] = "scraping"]
  /\ UNCHANGED <<urlFiles, hospitals, exceptLoader>>

\* _save_jsonl opens get_output_path(hospital) and writes the rows
SaveBegin(i) ==
  /\ writer[i] = "scraping"
  /\ writer' = [writer EXCEPT ![i] = "saving"]
  /\ UNCHANGED <<urlFiles, hospitals, exceptLoader>>

\* the file is written and closed; the task ends
SaveEnd(i) ==
  /\ writer[i] = "saving"
  /\ writer' = [writer EXCEPT ![i] = "done"]
  /\ UNCHANGED <<urlFiles, hospitals, exceptLoader>>

TaskStep(i) ==
  \/ TaskStart(i)
  \/ SaveBegin(i)
  \/ SaveEnd(i)

NextLoader ==
  \/ LoadCatalog
  \/ \E i \in DOMAIN writer : TaskStep(i)

SpecLoader == InitLoader /\ [][NextLoader]_vars

\* ------------------------------------------------------- scraper registry
exceptRegistry == <<orchVars, urlFiles, hospitals, writer, http, norm, scraper>>

MaxUrlLen == 3         \* characters of a file URL

\* A text that is searched is a sequence of characters; the alphabet has
\* two letters in both cases.
Chars == {"a", "b", "A", "B"}
LowerChar(c) == CASE c = "A" -> "a" [] c = "B" -> "b" [] OTHER -> c

\* str.lower()
Lower(text) == [i \in 1..Len(text) |-> LowerChar(text[i])]

\* text[i:] starts with part
OccursAt(part, text, i) ==
  /\ i >= 1 /\ i + Len(part) - 1 <= Len(text)
  /\ SubSeq(text, i, i + Len(part) - 1) = part

\* part in text
Contains(text, part) == \E i \in 1..(Len(text) + 1) : OccursAt(part, text, i)

\* re.search of a pattern of the shape head.*tail
ReSearch(pattern, text) ==
  \E i \in 1..(Len(text) + 1) :
    /\ OccursAt(pattern.head, text, i)
    /\ \E j \in (i + Len(pattern.head))..(Len(text) + 1) : OccursAt(pattern.tail, text, j)

NoScraperClass == "None"

\* URL_PROVIDER_SCRAPERS: (pattern, scraper class, is_regex), tried in
\* order; the table of the source is longer and has the same shape, its
\* first entry a regular expression of the shape head.*tail, its patterns
\* written in lower case
URL_PROVIDER_SCRAPERS ==
  << [pattern |-> [head |-> <<"b">>, tail |-> <<"a">>],
      scraper |-> "CMSStandardJSONScraper", is_regex |-> TRUE],
     [pattern |-> [head |-> <<"a", "b">>, tail |-> <<>>],
      scraper |-> "CMSStandardCSVScraper", is_regex |-> FALSE],
     [pattern |-> [head |-> <<"b">>, tail |-> <<>>],
      scraper |-> "CMSStandardZIPScraper", is_regex |-> FALSE] >>

IDN_SCRAPERS ==
  [idn \in {"Covenant Health", "Tennova Healthcare"} |->
     IF idn = "Covenant Health" THEN "HyveCMSJSONScraper" ELSE "TennovaCMSCSVScraper"]

SCRAPER_TYPES ==
  [t \in {"CMSStandardJSONScraper", "CMSStandardCSVScraper", "CMSStandardXLSXScraper",
          "CMSStandardZIPScraper", "HyveCMSJSONScraper", "TennovaCMSCSVScraper"} |-> t]

FORMAT_SCRAPERS ==
  [f \in {"CSV", "JSON", "XLSX", "ZIP"} |->
     CASE f = "CSV" -> "CMSStandardCSVScraper"
       [] f = "JSON" -> "CMSStandardJSONScraper"
       [] f = "XLSX" -> "CMSStandardXLSXScraper"
       [] OTHER -> "CMSStandardZIPScraper"]

\* one entry of the table against the lower-cased URL
EntryMatches(entry, url_lower) ==
  IF entry.is_regex THEN ReSearch(entry.pattern, url_lower)
  ELSE Contains(url_lower, Lower(entry.pattern.head))

_get_url_provider_scraper_LastMatch(file_url) ==
  LET hits == {k \in DOMAIN URL_PROVIDER_SCRAPERS :
                 EntryMatches(URL_PROVIDER_SCRAPERS[k], Lower(file_url))}
  IN IF file_url = <<>> \/ hits = {} THEN NoScraperClass
     ELSE URL_PROVIDER_SCRAPERS[CHOOSE k \in hits : \A m \in hits : m <= k].scraper

\* ScraperRegistry._get_url_provider_scraper: the loop returns at the
\* first entry that matches
_get_url_provider_scraper(file_url) ==
  LET hits == {k \in DOMAIN URL_PROVIDER_SCRAPERS :
                 EntryMatches(URL_PROVIDER_SCRAPERS[k], Lower(file_url))}
  IN IF file_url = <<>> \/ hits = {} THEN NoScraperClass
     ELSE URL_PROVIDER_SCRAPERS[CHOOSE k \in hits : \A m \in hits : k <= m].scraper

\* ScraperRegistry.get_scraper_class
get_scraper_class(hc, CCN_SCRAPERS) ==
  IF hc.scraper_type # "" /\ hc.scraper_type \in DOMAIN SCRAPER_TYPES
  THEN SCRAPER_TYPES[hc.scraper_type]
  ELSE IF hc.ccn # "" /\ hc.ccn \in DOMAIN CCN_SCRAPERS
  THEN CCN_SCRAPERS[hc.ccn]
  ELSE IF _get_url_provider_scraper(hc.file_url) # NoScraperClass
  THEN _get_url_provider_scraper(hc.file_url)
  ELSE IF hc.idn # "" /\ hc.idn \in DOMAIN IDN_SCRAPERS
  THEN IDN_SCRAPERS[hc.idn]
  ELSE IF hc.type # "None" /\ hc.type \in DOMAIN FORMAT_SCRAPERS
  THEN FORMAT_SCRAPERS[hc.type]
  ELSE NoScraperClass

Urls == UNION {[1..n -> Chars] : n \in 0..MaxUrlLen}

\* hospital records the lookup is asked about
RegistryConfigs ==
  [scraper_type : {"", "HyveCMSJSONScraper", "NoSuchScraper"},
   ccn : {"470001", "470003"},
   file_url : Urls,
   idn : {"", "Tennova Healthcare", "Unknown Health"},
   type : {"None", "CSV", "XML"}]

\* CCN_SCRAPERS: empty as shipped, or with one register_ccn_scraper entry
CcnTables == {<<>>, [c \in {"470001"} |-> "CMSStandardXLSXScraper"]}

InitRegistry ==
  /\ OrchIdle /\ LoaderIdle /\ http = Idle /\ norm = Idle /\ scraper = Idle
  /\ registry \in [pc : {"lookup"}, hospital_config : RegistryConfigs,
                    CCN_SCRAPERS : CcnTables, scraper_class : {"unset"}]

\* one call of ScraperRegistry.get_scraper_class
GetScraperClass ==
  /\ registry.pc = "lookup"
  /\ registry' = [registry EXCEPT
        !.pc = "done",
        !.scraper_class = get_scraper_class(registry.hospital_config, registry.CCN_SCRAPERS)]
  /\ UNCHANGED exceptRegistry

NextRegistry == GetScraperClass

SpecRegistry == InitRegistry /\ [][NextRegistry]_vars

\* ------------------------------------------------------- RetryHTTPClient.get
exceptHttp == <<orchVars, urlFiles, hospitals, writer, registry, norm, scraper>>

\* stop=stop_after_attempt(3)
StopAfterAttempt == 3

\* status codes a server answers with
StatusCodes == {200, 204, 403, 404, 429, 500, 503}

\* What one session.get ends in: a response with a status code (a 200 may
\* carry Google Drive's virus scan warning page with its uuid form), or an
\* exception of requests.
Response(code, virus_page) == [kind |-> "response", code |-> code, virus_page |-> virus_page]
RequestsException(name) == [kind |-> name, code |-> 0, virus_page |-> FALSE]
Answers ==
  {Response(c, FALSE) : c \in StatusCodes} \cup {Response(200, TRUE)}
  \cup {RequestsException(n) : n \in {"Timeout", "ConnectionError", "RequestException"}}

\* the URLs get is called with: a Google Drive /file/d/<id>/view link or not
UrlKinds == {"plain", "gdrive"}

\* values of max_retries a client is constructed with (ScraperConfig's
\* default is 3)
MaxRetriesValues == {2, 3, 4}

_should_retry_Any4xx(status_code) == status_code >= 400 /\ status_code < 600

\* RetryHTTPClient._should_retry
_should_retry(status_code) ==
  status_code = 429 \/ (status_code >= 500 /\ status_code < 600)

Returned(response) == [kind |-> "returned", value |-> response, error |-> "None"]
Raised(error) == [kind |-> "raised", value |-> Response(0, FALSE), error |-> error]

\* the except clauses of _make_request
ExceptionOutcome(answer) ==
  IF answer.kind \in {"Timeout", "ConnectionError"} THEN Raised("RetryableHTTPError")
  ELSE Raised("HTTPError")

\* _make_request after session.get answered `first`; `second` is the
\* answer to the download request that _handle_google_drive_virus_scan
\* sends for a Google Drive link answered with the warning page
FollowsUp(url, first) ==
  url = "gdrive" /\ first.kind = "response" /\ first.code = 200 /\ first.virus_page

MakeRequestOutcome(url, first, second) ==
  IF first.kind # "response" THEN ExceptionOutcome(first)
  ELSE IF first.code = 200
       THEN IF FollowsUp(url, first)
            THEN IF second.kind = "response" THEN Returned(second)
                 ELSE ExceptionOutcome(second)
            ELSE Returned(first)
       ELSE IF _should_retry(first.code) THEN Raised("RetryableHTTPError")
            ELSE Raised("PermanentHTTPError")

NoOutcome == [kind |-> "none", value |-> Response(0, FALSE), error |-> "None"]

InitHttp ==
  /\ OrchIdle /\ LoaderIdle /\ registry = Idle /\ norm = Idle /\ scraper = Idle
  /\ http \in [pc : {"attempt"}, url : UrlKinds, max_retries : MaxRetriesValues,
                attempt : {1}, requests : {<<>>}, outcome : {NoOutcome}]

\* one call of _make_request inside get
MakeRequest ==
  /\ http.pc = "attempt"
  /\ \E first \in Answers :
       IF FollowsUp(http.url, first)
       THEN \E second \in Answers :
              http' = [http EXCEPT !.pc = "decide",
                                   !.requests = http.requests \o <<first, second>>,
                                   !.outcome = MakeRequestOutcome(http.url, first, second)]
       ELSE http' = [http EXCEPT !.pc = "decide",
                                 !.requests = Append(http.requests, first),
                                 !.outcome = MakeRequestOutcome(http.url, first, first)]
  /\ UNCHANGED exceptHttp

\* retry=retry_if_exception_type(RetryableHTTPError)
RetryIf(outcome) == outcome.kind = "raised" /\ outcome.error = "RetryableHTTPError"

Stop_Never(attempt) == FALSE

\* stop=stop_after_attempt(3): give up once this many attempts were made
Stop(attempt) == attempt >= StopAfterAttempt

\* the retry decorator of get after an attempt: return the value, or wait
\* and call again, or (reraise=True) raise the last exception
RetryDecision ==
  /\ http.pc = "decide"
  /\ IF RetryIf(http.outcome) /\ ~Stop(http.attempt)
     THEN http' = [http EXCEPT !.pc = "attempt", !.attempt = @ + 1, !.outcome = NoOutcome]
     ELSE http' = [http EXCEPT !.pc = "done"]
  /\ UNCHANGED exceptHttp

NextHttp ==
  \/ MakeRequest
  \/ RetryDecision

SpecHttp == InitHttp /\ [][NextHttp]_vars

(***************************************************************************)
(* RetryHTTPClient.stream_to_tempfile: one request (no retry decorator),   *)
(* then the body is written chunk by chunk to a file made by mkstemp.      *)
(***************************************************************************)
MaxChunks == 3

\* errors that can come up inside the try block: no space left on the
\* device at a write, the connection breaking in iter_content
WriteErrors == {"ENOSPC", "ChunkedEncodingError"}

\* where inside the try block the error comes up: in open(fd, "wb") itself,
\* or inside the with block, which closes the file (and with it the
\* descriptor) on its way out
ErrorPlaces == {"open", "with"}

FdAfterTry(place) == IF place = "with" THEN "closed" ELSE "open"

\* the except clause: os.close(fd), os.unlink(temp_path), raise; os.close
\* of a descriptor that is already closed raises OSError (EBADF), and the
\* two statements after it are not run
ExceptClause(fd, error) ==
  IF fd = "open"
  THEN [fd |-> "closed", temp |-> FALSE, outcome |-> Raised(error)]
  ELSE [fd |-> "closed", temp |-> TRUE, outcome |-> Raised("EBADF")]

ReturnedPath == [NoOutcome EXCEPT !.kind = "path"]

InitStream ==
  /\ OrchIdle /\ LoaderIdle /\ registry = Idle /\ norm = Idle /\ scraper = Idle
  /\ http \in [pc : {"request"}, url : UrlKinds, code : {0}, chunks : 0..MaxChunks,
                written : {0}, fd : {"none"}, temp : {FALSE}, error : {"None"},
                outcome : {NoOutcome}]

\* _make_request(url, stream=True) and tempfile.mkstemp
StreamRequest ==
  /\ http.pc = "request"
  /\ \E first \in Answers, second \in Answers :
       LET made == MakeRequestOutcome(http.url, first, second)
       IN IF made.kind = "returned"
          THEN http' = [http EXCEPT !.pc = "writing", !.code = made.value.code,
                                    !.fd = "open", !.temp = TRUE]
          ELSE http' = [http EXCEPT !.pc = "done", !.outcome = made]
  /\ UNCHANGED exceptHttp

\* one chunk of iter_content written
WriteChunk ==
  /\ http.pc = "writing" /\ http.written < http.chunks
  /\ http' = [http EXCEPT !.written = @ + 1]
  /\ UNCHANGED exceptHttp

\* an exception inside the try block, and the except clause
WriteError ==
  /\ http.pc = "writing"
  /\ \E error \in WriteErrors, place \in ErrorPlaces :
       /\ place = "open" => http.written = 0
       /\ LET after == ExceptClause(FdAfterTry(place), error)
          IN http' = [http EXCEPT !.pc = "done", !.error = error, !.fd = after.fd,
                                  !.temp = after.temp, !.outcome = after.outcome]
  /\ UNCHANGED exceptHttp

\* the body is exhausted: the with block closes the file, the path is returned
StreamReturn ==
  /\ http.pc = "writing" /\ http.written = http.chunks
  /\ http' = [http EXCEPT !.pc = "done", !.fd = "closed", !.outcome = ReturnedPath]
  /\ UNCHANGED exceptHttp

NextStream ==
  \/ StreamRequest
  \/ WriteChunk
  \/ WriteError
  \/ StreamReturn

SpecStream == InitStream /\ [][NextStream]_vars

(***************************************************************************)
(* CPTNormalizer.normalize (src/normalizers/cpt_normalizer.py).  A code    *)
(* is a sequence of characters; a price cell of the input table is the     *)
(* empty set (NaN) or a singleton holding an amount in thousandths of a    *)
(* dollar, so that rounding to two decimals is a real conversion.          *)
(***************************************************************************)
exceptNormalizer == <<orchVars, urlFiles, hospitals, writer, registry, http, scraper>>

MaxRows == 2

NaN == {}

\* characters in Python's string order
CharOrder == <<"0", "1", "2", "3", "9", "J">>
CharRank(ch) == CHOOSE i \in 1..Len(CharOrder) : CharOrder[i] = ch
UpperOrDigit == {"0", "1", "2", "3", "9", "J"}

InputCodes ==
  { <<"9", "9", "2", "1", "3">>,
    <<"0", "9", "9", "2", "1", "3">>,
    <<"J", "1", "1", "0", "0">>,
    <<"9", "9", "2", "1">> }

InputVocabularies == {"CPT", "hcpcs", "ms-drg"}

\* (gross, cash) cells of one input row
PricePairs ==
  { <<NaN, {0}>>, <<{-1000}, {4}>>, <<{2000}, {3000}>>, <<{3000}, {2000}>> }

InputRows ==
  { [vocabulary_id |-> v, concept_code |-> c, gross |-> p[1], cash |-> p[2]] :
      v \in InputVocabularies, c \in InputCodes, p \in PricePairs }

Tables == UNION { [1..n -> InputRows] : n \in 0..MaxRows }

\* the normalizer's concept_codes; empty means "no vocabulary check"
ConceptIndexes == { {}, {<<"9", "9", "2", "1", "3">>, <<"9", "9", "2", "1">>} }

strip_leading_zero(code) ==
  IF Len(code) = 6 /\ code[1] = "0" THEN Tail(code) ELSE code

CPT_PATTERN(code) == Len(code) = 5 /\ \A i \in 1..5 : code[i] \in UpperOrDigit

LowerVocabulary(v) == IF v = "CPT" THEN "cpt" ELSE v

\* Python's order on strings
RECURSIVE StrLess(_, _)
StrLess(a, b) ==
  IF a = <<>> THEN b # <<>>
  ELSE IF b = <<>> THEN FALSE
  ELSE IF a[1] # b[1] THEN CharRank(a[1]) < CharRank(b[1])
  ELSE StrLess(Tail(a), Tail(b))

CleanCodes == {strip_leading_zero(c) : c \in InputCodes}
CodeRank(code) == Cardinality({d \in CleanCodes : StrLess(d, code)})
VocabularyRank(v) == CASE v = "cpt" -> 0 [] v = "cpt4" -> 1 [] v = "hcpcs" -> 2 [] OTHER -> 3
TypeRank(t) == IF t = "cash" THEN 0 ELSE 1

Max(S) == CHOOSE x \in S : \A y \in S : y <= x

\* pandas/numpy round(2) of a positive amount (ties to even)
Round2(p) ==
  LET q == p \div 10
      r == p % 10
  IN IF r < 5 THEN 10 * q
     ELSE IF r > 5 THEN 10 * (q + 1)
     ELSE IF q % 2 = 0 THEN 10 * q ELSE 10 * (q + 1)

\* the set of group keys as a sequence in groupby's (sorted) order
RECURSIVE SortedKeys(_)
SortedKeys(keys) ==
  IF keys = {} THEN <<>>
  ELSE LET KeyRank(k) == VocabularyRank(k[1]) * (Cardinality(CleanCodes) + 1) + CodeRank(k[2])
           first == CHOOSE k \in keys : \A o \in keys : KeyRank(k) <= KeyRank(o)
       IN <<first>> \o SortedKeys(keys \ {first})

\* DataFrame.drop_duplicates(): the first of equal rows is kept
RECURSIVE drop_duplicates(_)
drop_duplicates(rows) ==
  IF rows = <<>> THEN <<>>
  ELSE LET n == Len(rows)
           init == drop_duplicates(SubSeq(rows, 1, n - 1))
       IN IF \E j \in 1..(n - 1) : rows[j] = rows[n] THEN init ELSE Append(init, rows[n])

RowRank(r) == 2 * CodeRank(r.cpt) + TypeRank(r.type)

\* DataFrame.sort_values(["cpt", "type"]): a stable sort on two columns
RECURSIVE sort_values(_)
sort_values(rows) ==
  IF rows = <<>> THEN <<>>
  ELSE LET n == Len(rows)
           init == sort_values(SubSeq(rows, 1, n - 1))
           k == Cardinality({i \in 1..Len(init) : RowRank(init[i]) <= RowRank(rows[n])})
       IN SubSeq(init, 1, k) \o <<rows[n]>> \o SubSeq(init, k + 1, Len(init))

normalize(df, concept_codes) ==
  LET cleaned == [i \in 1..Len(df) |->
                    [df[i] EXCEPT !.concept_code = strip_leading_zero(@),
                                  !.vocabulary_id = LowerVocabulary(@)]]
      InVocabulary(r) == r.vocabulary_id \in {"cpt", "cpt4", "hcpcs"}
      InIndex(r) == concept_codes = {} \/ r.concept_code \in concept_codes
      kept == SelectSeq(SelectSeq(cleaned, InVocabulary), InIndex)
      keys == SortedKeys({<<kept[i].vocabulary_id, kept[i].concept_code>> : i \in 1..Len(kept)})
      GroupMax(k, col) ==
        LET vals == UNION {kept[i][col] : i \in {j \in 1..Len(kept) :
                             <<kept[j].vocabulary_id, kept[j].concept_code>> = k}}
        IN IF vals = {} THEN NaN ELSE {Max(vals)}
      n == Len(keys)
      melted == [i \in 1..(2 * n) |->
                   IF i <= n
                   THEN [cpt |-> keys[i][2], type |-> "cash", price |-> GroupMax(keys[i], "cash")]
                   ELSE [cpt |-> keys[i - n][2], type |-> "gross",
                         price |-> GroupMax(keys[i - n], "gross")]]
      NotNa(r) == r.price # NaN
      Positive(r) == \A p \in r.price : p > 0
      Matches(r) == CPT_PATTERN(r.cpt)
      positive == SelectSeq(SelectSeq(drop_duplicates(melted), NotNa), Positive)
      rounded == [i \in 1..Len(positive) |->
                    [cpt |-> positive[i].cpt, type |-> positive[i].type,
                     price |-> Round2(Max(positive[i].price))]]
  IN SelectSeq(sort_values(rounded), Matches)

\* a DataFrame: its column names and its rows
DataFrame(columns, rows) ==
  [kind |-> "returned", error |-> "None", columns |-> columns, rows |-> rows]

ValueError == [kind |-> "raised", error |-> "ValueError", columns |-> {}, rows |-> <<>>]

RequiredColumns == {"vocabulary_id", "concept_code", "gross", "cash"}
OutputColumns == {"cpt", "type", "price"}

\* a call of normalize with the default arguments (rename=False): the
\* required columns are checked before anything else
normalize_call(df, concept_codes) ==
  IF RequiredColumns \ df.columns # {}
  THEN ValueError
  ELSE DataFrame(OutputColumns, normalize(df.rows, concept_codes))

NotCalled == [kind |-> "none", error |-> "None", columns |-> {}, rows |-> <<>>]

InitNormalizer ==
  /\ OrchIdle
  /\ LoaderIdle /\ registry = Idle /\ http = Idle /\ scraper = Idle
  /\ norm \in [pc : {"input"}, concept_codes : ConceptIndexes, df : Tables,
               out : {<<>>}, again : {NotCalled}]

\* one call of normalize on a parsed table
Normalize ==
  /\ norm.pc = "input"
  /\ LET result == normalize_call(DataFrame(RequiredColumns, norm.df), norm.concept_codes)
     IN norm' = [norm EXCEPT !.pc = "done", !.out = result.rows]
  /\ UNCHANGED exceptNormalizer

\* a second call of normalize, on the table the first call returned
NormalizeAgain ==
  /\ norm.pc = "done"
  /\ norm' = [norm EXCEPT !.pc = "again",
                          !.again = normalize_call(DataFrame(OutputColumns, norm.out),
                                                   norm.concept_codes)]
  /\ UNCHANGED exceptNormalizer

NextNormalizer ==
  \/ Normalize
  \/ NormalizeAgain

SpecNormalizer == InitNormalizer /\ [][NextNormalizer]_vars

(***************************************************************************)
(* One ZIP archive fetched through the CSV extractor (a .csv URL whose     *)
(* body is the archive) and through the ZIP extractor (a .zip URL):        *)
(* CMSStandardCSVScraper and CMSStandardZIPScraper, fetch_data followed by *)
(* parse_data.  A table is named by the member it was parsed from.         *)
(***************************************************************************)
exceptScraper == <<orchVars, urlFiles, hospitals, writer, registry, http, norm>>

\* what the archive holds (next to members that neither extractor looks
\* at), how its members are compressed, whether the server announces more
\* than LARGE_FILE_THRESHOLD bytes for it, and what the system's unzip does
Archives ==
  [csv : BOOLEAN, json : BOOLEAN, ooxml : BOOLEAN, deflate64 : BOOLEAN,
   large : BOOLEAN, unzip : {"missing", "works", "fails"}]

Table(source) == [kind |-> "table", source |-> source, error |-> "None"]
Failure(error) == [kind |-> "raised", source |-> "None", error |-> error]
NotFetched == [kind |-> "none", source |-> "None", error |-> "None"]

\* zf.read(target_file) of the CSV extractor: no fallback
ZipRead(a) ==
  IF a.deflate64 THEN Failure("NotImplementedError") ELSE NotFetched

\* zf.read(target_file) of the ZIP extractor, with _extract_with_system_unzip
ZipReadOrUnzip(a) ==
  IF ~a.deflate64 THEN NotFetched
  ELSE CASE a.unzip = "missing" -> Failure("NotImplementedError")
         [] a.unzip = "fails" -> Failure("RuntimeError")
         [] OTHER -> NotFetched

\* CMSStandardCSVScraper._extract_from_zip, then parse_data on the text
_extract_from_zip(a) ==
  IF a.csv
  THEN (IF ZipRead(a) # NotFetched THEN ZipRead(a) ELSE Table("csv member"))
  ELSE Failure("ValueError")

\* the results CMSStandardCSVScraper can give for a .csv URL serving a
\* large archive: the stream is read as CSV text, which parses to some
\* table or fails in the reader
ParsedAsCsvText == {Table("archive bytes"), Failure("ParserError")}

CsvExtractorResults(a) ==
  IF a.large THEN ParsedAsCsvText ELSE {_extract_from_zip(a)}

\* CMSStandardZIPScraper.fetch_data and parse_data
ZipExtractorResult(a) ==
  IF a.ooxml THEN Table("workbook")
  ELSE IF a.csv
  THEN (IF ZipReadOrUnzip(a) # NotFetched THEN ZipReadOrUnzip(a) ELSE Table("csv member"))
  ELSE IF a.json
  THEN (IF ZipReadOrUnzip(a) # NotFetched THEN ZipReadOrUnzip(a) ELSE Table("json member"))
  ELSE Failure("ValueError")

InitZip ==
  /\ OrchIdle /\ LoaderIdle /\ registry = Idle /\ http = Idle /\ norm = Idle
  /\ scraper \in [pc : {"zip"}, archive : Archives, by_csv : {NotFetched}, by_zip : {NotFetched}]

ScrapeThroughCsv ==
  /\ scraper.pc = "zip" /\ scraper.by_csv = NotFetched
  /\ \E r \in CsvExtractorResults(scraper.archive) :
       scraper' = [scraper EXCEPT !.by_csv = r]
  /\ UNCHANGED exceptScraper

ScrapeThroughZip ==
  /\ scraper.pc = "zip" /\ scraper.by_zip = NotFetched
  /\ scraper' = [scraper EXCEPT !.by_zip = ZipExtractorResult(scraper.archive)]
  /\ UNCHANGED exceptScraper

NextZip ==
  \/ ScrapeThroughCsv
  \/ ScrapeThroughZip

SpecZip == InitZip /\ [][NextZip]_vars

(***************************************************************************)
(* CMSStandardJSONScraper (src/scrapers/cms_json_scraper.py): fetch_data   *)
(* followed by parse_data on one JSON document, which is either the items  *)
(* array itself or an object {"standard_charge_information": items}.  An   *)
(* item carries one code with its code type and the two prices.            *)
(***************************************************************************)
MaxItems == 2

JsonCodes == {"99213", "99214"}
JsonCodeTypes == {"CPT", "hcpcs", "ICD-10"}
JsonItems ==
  [code : JsonCodes, type : JsonCodeTypes, gross : {{2000}, {3000}}, cash : {NaN, {2000}}]
ItemArrays == UNION { [1..n -> JsonItems] : n \in 0..MaxItems }

Document(root, items) == [root |-> root, items |-> items]

VALID_CODE_TYPES == {"CPT", "CPT4", "HCPCS", "CPT-4", "HCPC"}

\* str(code_type).upper().replace("-", "")
UpperNoDash(type) ==
  CASE type = "hcpcs" -> "HCPCS"
    [] type = "ICD-10" -> "ICD10"
    [] OTHER -> type

\* the (code, vocabulary_id) pairs of one item
_extract_codes(item) ==
  LET code_type_upper == UpperNoDash(item.type)
  IN IF code_type_upper \notin VALID_CODE_TYPES THEN {}
     ELSE {<<item.code, IF code_type_upper \in {"HCPCS", "HCPC"} THEN "hcpcs" ELSE "cpt">>}

\* the loop over the items, shared by parse_data and the streaming parser:
\* a (code, vocabulary_id) pair already in codes_seen is skipped
RECURSIVE ParseItems(_, _)
ParseItems(items, codes_seen) ==
  IF items = <<>> THEN <<>>
  ELSE LET item == Head(items)
           fresh == _extract_codes(item) \ codes_seen
           rows == IF fresh = {} THEN <<>>
                   ELSE LET key == CHOOSE k \in fresh : TRUE
                        IN << [vocabulary_id |-> key[2], concept_code |-> key[1],
                               gross |-> item.gross, cash |-> item.cash] >>
       IN rows \o ParseItems(Tail(items), codes_seen \cup fresh)

\* fetch_data: a large file goes to a temp file; otherwise get_json's
\* result is kept only if it is a dict
JsonFetchData(doc, large) ==
  IF large THEN [kind |-> "path", doc |-> doc]
  ELSE IF doc.root = "object" THEN [kind |-> "dict", doc |-> doc]
  ELSE [kind |-> "dict", doc |-> Document("object", <<>>)]

_find_charges_array(data) == data.items

\* parse_data on a dict or list
ParseInMemory(data) == ParseItems(_find_charges_array(data), {})

\* _parse_large_json_streaming: the first item path that yields an item is
\* used; when none does the file is loaded whole
_parse_large_json_streaming(doc) ==
  IF doc.items # <<>> THEN ParseItems(doc.items, {}) ELSE ParseInMemory(doc)

JsonParseData(raw_data) ==
  IF raw_data.kind = "path"
  THEN _parse_large_json_streaming(raw_data.doc)
  ELSE ParseInMemory(raw_data.doc)

NotParsed == [kind |-> "none", rows |-> <<>>]
Parsed(rows) == [kind |-> "table", rows |-> rows]

InitJson ==
  /\ OrchIdle /\ LoaderIdle /\ registry = Idle /\ http = Idle /\ norm = Idle
  /\ scraper \in [pc : {"json"}, items : ItemArrays, large : BOOLEAN,
                  by_root : {NotParsed}, by_wrapped : {NotParsed}]

\* the document whose root is the items array
ScrapeRootArray ==
  /\ scraper.pc = "json" /\ scraper.by_root = NotParsed
  /\ scraper' = [scraper EXCEPT !.by_root =
       Parsed(JsonParseData(JsonFetchData(Document("array", scraper.items), scraper.large)))]
  /\ UNCHANGED exceptScraper

\* the document {"standard_charge_information": items}
ScrapeWrapped ==
  /\ scraper.pc = "json" /\ scraper.by_wrapped = NotParsed
  /\ scraper' = [scraper EXCEPT !.by_wrapped =
       Parsed(JsonParseData(JsonFetchData(Document("object", scraper.items), scraper.large)))]
  /\ UNCHANGED exceptScraper

NextJson ==
  \/ ScrapeRootArray
  \/ ScrapeWrapped

SpecJson == InitJson /\ [][NextJson]_vars

(***************************************************************************)
(* The header-skip count of CMSStandardCSVScraper, computed once by        *)
(* parse_data for text in memory and once by _parse_large_file for a temp  *)
(* file.  A first line is the set of column names it is made of.           *)
(***************************************************************************)
Delimiters == {",", "|", ";", "tab"}

ColumnNames == {"service_code", "HCPCS", "Hospital_Name", "description", "code"}

\* str.lower() on a column name
LowerName(name) ==
  CASE name = "HCPCS" -> "hcpcs"
    [] name = "Hospital_Name" -> "hospital_name"
    [] OTHER -> name

\* `word in first_line` after first_line was lower-cased
InLine(word, first_line) == \E name \in first_line : LowerName(name) = word

_parse_large_file_skiprows_NoPipeRule(delimiter, first_line) ==
  IF InLine("service_code", first_line) \/ InLine("hcpcs", first_line) THEN 0
  ELSE IF ~InLine("hospital_name", first_line) /\ InLine("description", first_line) THEN 0
  ELSE 2

\* skiprows as _parse_large_file computes it
_parse_large_file_skiprows(delimiter, first_line) ==
  IF delimiter = "|" THEN 0
  ELSE IF InLine("service_code", first_line) \/ InLine("hcpcs", first_line) THEN 0
  ELSE IF ~InLine("hospital_name", first_line) /\ InLine("description", first_line) THEN 0
  ELSE 2

\* skiprows as parse_data computes it
parse_data_skiprows(delimiter, first_line) ==
  IF delimiter = "|" THEN 0
  ELSE IF InLine("service_code", first_line) \/ InLine("hcpcs", first_line) THEN 0
  ELSE IF ~InLine("hospital_name", first_line) /\ InLine("description", first_line) THEN 0
  ELSE 2

NotComputed == -1

InitCsv ==
  /\ OrchIdle /\ LoaderIdle /\ registry = Idle /\ http = Idle /\ norm = Idle
  /\ scraper \in [pc : {"csv"}, delimiter : Delimiters, first_line : SUBSET ColumnNames,
                  in_memory : {NotComputed}, large_file : {NotComputed}]

\* parse_data on the text of the file
CsvParseData ==
  /\ scraper.pc = "csv" /\ scraper.in_memory = NotComputed
  /\ scraper' = [scraper EXCEPT !.in_memory =
                   parse_data_skiprows(scraper.delimiter, scraper.first_line)]
  /\ UNCHANGED exceptScraper

\* _parse_large_file on a temp file with the same content
CsvParseLargeFile ==
  /\ scraper.pc = "csv" /\ scraper.large_file = NotComputed
  /\ scraper' = [scraper EXCEPT !.large_file =
                   _parse_large_file_skiprows(scraper.delimiter, scraper.first_line)]
  /\ UNCHANGED exceptScraper

NextCsv ==
  \/ CsvParseData
  \/ CsvParseLargeFile

SpecCsv == InitCsv /\ [][NextCsv]_vars

(***************************************************************************)
(* The large-file path of the CSV and JSON extractors, from fetch_data     *)
(* (stream_to_tempfile) to the end of parse_data: _parse_large_file and    *)
(* _parse_large_json_streaming, whose bodies are try blocks with a finally *)
(* clause that unlinks the temp file.  The modules the parsers import are  *)
(* installed (the JSON parser imports ijson before it enters its try).     *)
(***************************************************************************)
LargeExtractors == {"csv", "json"}

ParseErrors == {"ParserError", "JSONError", "UnicodeDecodeError"}

TempAfterFinally_NoUnlink(temp) == temp

\* the finally clause: if file_path.exists(): file_path.unlink()
TempAfterFinally(temp) == FALSE

\* leaving the try block of the parser, by return or by exception
LeaveParser(result) ==
  scraper' = [scraper EXCEPT !.pc = "done", !.result = result,
                             !.temp = TempAfterFinally(scraper.temp)]

InitLarge ==
  /\ OrchIdle /\ LoaderIdle /\ registry = Idle /\ http = Idle /\ norm = Idle
  /\ scraper \in [pc : {"fetch"}, extractor : LargeExtractors, chunks : 0..MaxChunks,
                  parsed : {0}, path_found : {FALSE}, fetched : {FALSE}, temp : {FALSE},
                  result : {NotFetched}]

\* fetch_data: the content length is above the threshold and
\* stream_to_tempfile returns the path of the temp file
LargeFetch ==
  /\ scraper.pc = "fetch"
  /\ scraper' = [scraper EXCEPT !.pc = "open", !.fetched = TRUE, !.temp = TRUE]
  /\ UNCHANGED exceptScraper

\* stream_to_tempfile raises: the request failed, or the write failed and
\* the except clause ran; fetch_data returns nothing and parse_data is not
\* called
LargeFetchFails ==
  /\ scraper.pc = "fetch"
  /\ \/ scraper' = [scraper EXCEPT !.pc = "done", !.result = Failure("HTTPError")]
     \/ \E error \in WriteErrors, place \in ErrorPlaces :
          LET after == ExceptClause(FdAfterTry(place), error)
          IN scraper' = [scraper EXCEPT !.pc = "done", !.temp = after.temp,
                                        !.result = Failure(after.outcome.error)]
  /\ UNCHANGED exceptScraper

\* the start of the try block: the CSV parser reads the first lines and
\* settles delimiter and skiprows; the JSON parser opens the file and tries
\* the item paths until one yields an item
ParserOpen ==
  /\ scraper.pc = "open"
  /\ \/ scraper' = [scraper EXCEPT !.pc = "chunks",
                                   !.path_found = (scraper.extractor = "json")]
     \/ /\ scraper.extractor = "json"
        /\ scraper' = [scraper EXCEPT !.pc = "fallback"]
     \/ \E error \in ParseErrors : LeaveParser(Failure(error))
  /\ UNCHANGED exceptScraper

\* one chunk of rows (CSV) or one item (JSON) is read and its records kept
ParserChunk ==
  /\ scraper.pc = "chunks" /\ scraper.parsed < scraper.chunks
  /\ scraper' = [scraper EXCEPT !.parsed = @ + 1]
  /\ UNCHANGED exceptScraper

\* an error while a chunk is read: the CSV reader falls back to one read
\* with the Python engine, an ijson error ends the JSON parser; an error
\* while the records of a CSV chunk are extracted ends the CSV parser
ParserChunkError ==
  /\ scraper.pc = "chunks" /\ scraper.parsed < scraper.chunks
  /\ \/ /\ scraper.extractor = "csv"
        /\ scraper' = [scraper EXCEPT !.pc = "fallback"]
     \/ \E error \in ParseErrors : LeaveParser(Failure(error))
  /\ UNCHANGED exceptScraper

\* the fallback: pd.read_csv with engine="python" on the whole file, or
\* json.load of the whole file followed by the in-memory parse_data
ParserFallback ==
  /\ scraper.pc = "fallback"
  /\ \/ LeaveParser(Table("temp file, read whole"))
     \/ \E error \in ParseErrors : LeaveParser(Failure(error))
  /\ UNCHANGED exceptScraper

\* all chunks are parsed: the table is returned
ParserReturn ==
  /\ scraper.pc = "chunks" /\ scraper.parsed = scraper.chunks
  /\ LeaveParser(Table("temp file, in chunks"))
  /\ UNCHANGED exceptScraper

NextLarge ==
  \/ LargeFetch
  \/ LargeFetchFails
  \/ ParserOpen
  \/ ParserChunk
  \/ ParserChunkError
  \/ ParserFallback
  \/ ParserReturn

SpecLarge == InitLarge /\ [][NextLarge]_vars

\* ================================================================ claims
Replies ==
  {Head(queue[h]) : h \in {g \in Hospitals : queue[g] # <<>>}}
  \cup {ret[h] : h \in {g \in Hospitals : task[g] = "returned"}}

\* every ScrapeResult that exists: on a queue, returned, or recorded
LiveResults == {r.result : r \in Replies} \cup {e[2] : e \in Recorded}

NumResultsOf(h) ==
  Cardinality({p \in States \X (1..NumHospitals) :
                 /\ p[2] <= Len(results_by_state[p[1]])
                 /\ results_by_state[p[1]][p[2]][1] = h})

\* C1: when the call for a hospital returns and the worker was still running
\* at the end of join(timeout), the parent has called terminate(), joined
\* for 5 s, called kill() only if the worker was still alive and then joined
\* for 2 s, and the call returns FAILURE with error_type TimeoutError; a
\* worker that had exited gets none of these calls.
C1_TimeoutKillsThenFails ==
  [][\A h \in Hospitals :
       (task[h] = "joining" /\ task'[h] = "returned") =>
         IF worker[h].pc # "exited"
         THEN /\ calls'[h] \in {<<"terminate", "join", 5, "gone">>,
                                <<"terminate", "join", 5, "alive", "kill", "join", 2>>}
              /\ ret'[h].result.status = "FAILURE"
              /\ ret'[h].result.error_type = "TimeoutError"
         ELSE calls'[h] = <<>>]_vars

\* a worker outlived terminate(), was killed, and the call returned
C1_Witness ==
  \E h \in Hospitals :
    /\ task[h] = "returned" /\ Len(calls[h]) = 7 /\ calls[h][5] = "kill"
    /\ ret[h].result.error_type = "TimeoutError"

\* C2 (as claimed, the direction from status to file, for full scrapes):
\* at the end of a run that is neither --dry-run nor --validate-only every
\* hospital recorded as SUCCESS has an output file with at least one line.
C2_StatusMatchesFile ==
  (phase = "done" /\ ~cfg.dry_run /\ ~cfg.validate_only) =>
    \A e \in Recorded :
      (e[2].status = "SUCCESS") => (outFile[e[1]].exists /\ outFile[e[1]].lines >= 1)

\* C3: no hospital is started twice or recorded twice, a result lies in the
\* bucket of its hospital's state, and at end of run every hospital was
\* started once and has one result, the results number NumHospitals and
\* successful + failed + skipped = total_hospitals = NumHospitals.
C3_OneResultPerHospital ==
  /\ \A h \in Hospitals :
       /\ started[h] <= 1
       /\ NumResultsOf(h) = (IF task[h] = "recorded" THEN 1 ELSE 0)
       /\ \A s \in States : \A i \in 1..Len(results_by_state[s]) :
            results_by_state[s][i][1] = h => s = StateOf(h)
  /\ phase = "done" =>
       /\ \A h \in Hospitals : started[h] = 1 /\ NumResultsOf(h) = 1
       /\ stats.total_hospitals = NumHospitals
       /\ stats.successful + stats.failed + stats.skipped = NumHospitals
       /\ stats.successful = Cardinality({e \in Recorded : e[2].status = "SUCCESS"})
       /\ stats.failed = Cardinality({e \in Recorded : e[2].status = "FAILURE"})
       /\ stats.skipped = Cardinality({e \in Recorded : e[2].status = "SKIPPED"})

\* a parallel run ended that had a timeout kill and a failed future
C3_Witness ==
  /\ phase = "done" /\ cfg.parallel > 1
  /\ \E e \in Recorded : e[2].error_type = "TimeoutError"
  /\ \E e \in Recorded : e[2].error_type = "OSError"

\* C4: a run that reached its end exits non-zero exactly when one of its
\* recorded results is a FAILURE.
C4_ExitCodeIffFailure ==
  phase = "done" =>
    /\ exitCode \in {0, 1}
    /\ (exitCode # 0) <=> (\E e \in Recorded : e[2].status = "FAILURE")

\* a run of SUCCESS and SKIPPED results only ended with exit code 0
C4_Witness ==
  /\ phase = "done" /\ exitCode = 0
  /\ \E e \in Recorded : e[2].status = "SKIPPED"
  /\ \E e \in Recorded : e[2].status = "SUCCESS"

\* C5 (as claimed): a worker that exited with an empty queue is returned as
\* a FAILURE with error_type WorkerCrashed.
C5_CrashIsWorkerCrashed ==
  [][\A h \in Hospitals :
       (task[h] = "joining" /\ worker[h].pc = "exited" /\ queue[h] = <<>>
          /\ task'[h] = "returned") =>
         /\ ret'[h].result.status = "FAILURE"
         /\ ret'[h].result.error_type = "WorkerCrashed"]_vars

\* C5 (amended): a worker that exited with an empty queue is returned as a
\* FAILURE with error_type RuntimeError and message "Worker process crashed".
C5_CrashIsRuntimeError ==
  [][\A h \in Hospitals :
       (task[h] = "joining" /\ worker[h].pc = "exited" /\ queue[h] = <<>>
          /\ task'[h] = "returned") =>
         /\ ret'[h].result.status = "FAILURE"
         /\ ret'[h].result.error_type = "RuntimeError"
         /\ ret'[h].result.error_message.kind = "Worker process crashed"
         /\ ret'[h].message = "! Worker crashed"]_vars

\* the call for a crashed worker has returned
C5_Witness ==
  \E h \in Hospitals :
    /\ task[h] = "returned" /\ calls[h] = <<>>
    /\ ret[h].message = "! Worker crashed"

\* C6: a worker that has replied has put exactly one reply; a reply that
\* carries an exception's class is a FAILURE with that exception's text; no
\* FAILURE anywhere has an error_message longer than 500 characters.
C6_FailureMessageTruncated ==
  /\ \A h \in Hospitals :
       /\ Len(queue[h]) <= 1
       /\ worker[h].pc = "put" => Len(queue[h]) = 1
  /\ \A r \in LiveResults :
       /\ r.error_type = "ValueError" =>
            r.status = "FAILURE" /\ r.error_message.kind = "worker error"
       /\ r.status = "FAILURE" => r.error_message.len <= 500

\* a worker's exception with a text of more than 500 characters was
\* recorded, cut to 500
C6_Witness ==
  \E e \in Recorded :
    /\ e[2].status = "FAILURE" /\ e[2].error_type = "ValueError"
    /\ e[2].error_message.len = 500

\* C7 (as claimed): whenever the orchestrator process has ended, every
\* hospital of the slice has a result and, unless --dry-run, every state's
\* status file is written.
C7_FailureNeverStopsRun ==
  exitCode # -1 =>
    /\ \A h \in Hospitals : NumResultsOf(h) = 1
    /\ ~cfg.dry_run => \A s \in States : statusFiles[s] # <<>>

\* C8 (as claimed): once the orchestrator process has ended no temp file
\* made by a worker is left.
C8_NoTempFileSurvives ==
  exitCode # -1 => tempFiles = {}

\* the worker of h leaves the age check by its own step
PassesAgeCheck(h) ==
  /\ task[h] = "joining" /\ task'[h] = "joining"
  /\ worker[h].pc = "start" /\ worker'[h].pc \notin {"start", "exited"}

\* the worker of h has gone on past the age check: client and vocabulary
\* are loaded and its reply, if any, is not the age skip
NotAgeSkipped(h) ==
  /\ worker'[h].vocab
  /\ queue'[h] # <<>> => queue'[h][1].result.error_message.kind # "Data is days old"

\* the worker of h has replied SKIPPED for the data age, with no HTTP
\* request issued and no vocabulary loaded
AgeSkipped(h) ==
  /\ worker'[h].pc = "put" /\ ~worker'[h].http /\ ~worker'[h].vocab
  /\ Len(queue'[h]) = 1
  /\ queue'[h][1].result.status = "SKIPPED"
  /\ queue'[h][1].result.error_message.kind = "Data is days old"
  /\ queue'[h][1].result.error_message.age = now - outFile[h].mtime

\* C9 (as claimed): with max_age_days > 0 and an output file younger than
\* max_age_days the worker replies SKIPPED before any request and before
\* the vocabulary load; with max_age_days = 0 it goes on to scrape.
C9_FreshDataSkipped ==
  [][\A h \in Hospitals : PassesAgeCheck(h) =>
       /\ (cfg.max_age_days > 0 /\ outFile[h].exists
             /\ now - outFile[h].mtime < cfg.max_age_days) => AgeSkipped(h)
       /\ cfg.max_age_days = 0 => NotAgeSkipped(h)]_vars

\* C9 (amended): the same, unless the run is --validate-only.
C9_FreshDataSkippedUnlessValidating ==
  [][\A h \in Hospitals : PassesAgeCheck(h) =>
       /\ (cfg.max_age_days > 0 /\ ~cfg.validate_only /\ outFile[h].exists
             /\ now - outFile[h].mtime < cfg.max_age_days) => AgeSkipped(h)
       /\ cfg.max_age_days = 0 => NotAgeSkipped(h)]_vars

\* a worker has replied SKIPPED for the data age
C9_Witness ==
  \E h \in Hospitals :
    /\ worker[h].pc = "put" /\ queue[h] # <<>>
    /\ Head(queue[h]).result.status = "SKIPPED"
    /\ Head(queue[h]).result.error_message.kind = "Data is days old"

\* C10 (as claimed, for full scrapes whose second worker is neither killed
\* nor crashed): at the end of a second run started less than
\* max_age_days >= 1 after a first run that reached its end, every hospital
\* that was SUCCESS in the first run is SKIPPED.
C10_SecondRunSkipsSuccesses ==
  (/\ run = 2 /\ phase = "done" /\ prev.completed
   /\ ~cfg.validate_only /\ ~cfg.dry_run
   /\ cfg.max_age_days >= 1 /\ now - prev.day < cfg.max_age_days) =>
    \A h \in Hospitals :
      (prev.status[h] = "SUCCESS"
         /\ \A r \in ResultsOf(h) : r.error_type \notin {"TimeoutError", "RuntimeError"})
      => StatusOf(h) = "SKIPPED"

\* C11: in a run with --dry-run no step creates or modifies an output file
\* under data/ or a status file, whatever the outcome of each hospital.
C11_DryRunWritesNothing ==
  [][cfg.dry_run => (outFile' = outFile /\ statusFiles' = statusFiles)]_vars

\* a dry run ended in which one hospital parsed to rows and another was
\* killed by the timeout
C11_Witness ==
  /\ phase = "done" /\ cfg.dry_run /\ ~cfg.validate_only
  /\ \E e \in Recorded : e[2].status = "SUCCESS" /\ e[2].records_scraped > 0
  /\ \E e \in Recorded : e[2].error_type = "TimeoutError"
  /\ \A h \in Hospitals : ~outFile[h].exists
  /\ \A s \in States : statusFiles[s] = <<>>

\* C12 (as claimed): a hospital whose normalised table has zero rows is never
\* reported as SUCCESS with a record count of 0; its worker's reply is a
\* FAILURE with error_type NoCharges.
C12_EmptyTableIsNoCharges ==
  [][\A h \in Hospitals :
       (worker[h].pc = "saved" /\ worker[h].records = 0 /\ worker'[h].pc = "put") =>
         /\ queue'[h][1].result.status = "FAILURE"
         /\ queue'[h][1].result.error_type = "NoCharges"]_vars

\* C13 (as claimed): in a run without --dry-run a status file changes only
\* in main's step to the end of the run, when every hospital is recorded and
\* no worker is alive, and once the orchestrator process has ended the
\* status file of every state with an attempted hospital (one whose result
\* main has recorded) has been written.
C13_StatusWrittenOnceAtEnd ==
  /\ [][statusFiles' # statusFiles =>
          /\ phase = "running" /\ phase' = "done"
          /\ \A h \in Hospitals : ~Alive(worker[h]) /\ task[h] = "recorded"]_vars
  /\ []((exitCode # -1 /\ ~cfg.dry_run) =>
          \A h \in Hospitals :
            task[h] = "recorded" => statusFiles[StateOf(h)] # <<>>)

\* C14 (as claimed): for every catalog the loader accepts, two tasks that
\* write at the same time never write the same output path.
C14_WritersDisjoint ==
  \A i, j \in DOMAIN writer :
    (i # j /\ writer[i] = "saving" /\ writer[j] = "saving") =>
      get_output_path(hospitals[i]) # get_output_path(hospitals[j])

\* two characters are the same letter, whatever their case
SameLetter(c, d) == c = d \/ {c, d} = {"a", "A"} \/ {c, d} = {"b", "B"}

\* part occurs in text from position i on, ignoring case
OccursIgnoringCase(part, text, i) ==
  /\ i >= 1 /\ i + Len(part) - 1 <= Len(text)
  /\ \A k \in 1..Len(part) : SameLetter(text[i + k - 1], part[k])

\* the entry's pattern matches the URL ignoring case: the head occurs and,
\* for a regular expression, the tail occurs somewhere after it
PatternMatches(entry, url) ==
  \E i \in 1..(Len(url) + 1) :
    /\ OccursIgnoringCase(entry.pattern.head, url, i)
    /\ entry.is_regex =>
         \E j \in (i + Len(entry.pattern.head))..(Len(url) + 1) :
           OccursIgnoringCase(entry.pattern.tail, url, j)

\* what each of the five rules gives for a hospital record, in the order
\* of their priority; NoScraperClass where the rule does not match
RuleAnswers(hc, ccn_table) ==
  << IF hc.scraper_type \in DOMAIN SCRAPER_TYPES THEN hc.scraper_type ELSE NoScraperClass,
     IF hc.ccn \in DOMAIN ccn_table THEN ccn_table[hc.ccn] ELSE NoScraperClass,
     IF \E k \in DOMAIN URL_PROVIDER_SCRAPERS : PatternMatches(URL_PROVIDER_SCRAPERS[k], hc.file_url)
     THEN URL_PROVIDER_SCRAPERS[
            CHOOSE k \in DOMAIN URL_PROVIDER_SCRAPERS :
              /\ PatternMatches(URL_PROVIDER_SCRAPERS[k], hc.file_url)
              /\ \A m \in 1..(k - 1) : ~PatternMatches(URL_PROVIDER_SCRAPERS[m], hc.file_url)].scraper
     ELSE NoScraperClass,
     IF hc.idn \in DOMAIN IDN_SCRAPERS THEN IDN_SCRAPERS[hc.idn] ELSE NoScraperClass,
     IF hc.type \in DOMAIN FORMAT_SCRAPERS THEN FORMAT_SCRAPERS[hc.type] ELSE NoScraperClass >>

\* C15: the lookup returns the answer of the first rule that matches, in
\* the order explicit scraper_type, CCN override, URL-pattern table (first
\* entry in list order, ignoring case), IDN label, format; it returns None
\* exactly when no rule matches.
C15_FirstMatchingRuleWins ==
  registry.pc = "done" =>
    LET answers == RuleAnswers(registry.hospital_config, registry.CCN_SCRAPERS)
        matching == {k \in 1..5 : answers[k] # NoScraperClass}
    IN IF matching = {} THEN registry.scraper_class = NoScraperClass
       ELSE registry.scraper_class =
              answers[CHOOSE k \in matching : \A m \in matching : k <= m]

\* a lookup answered by the URL table for an upper-case URL that two
\* entries match, while the IDN and the format rules match as well
C15_Witness ==
  /\ registry.pc = "done"
  /\ registry.hospital_config.file_url = <<"A", "B">>
  /\ registry.hospital_config.scraper_type = "NoSuchScraper"
  /\ registry.CCN_SCRAPERS = <<>>
  /\ registry.hospital_config.idn = "Tennova Healthcare"
  /\ registry.hospital_config.type = "CSV"
  /\ registry.scraper_class = "CMSStandardCSVScraper"

\* the recorded results that report a missing scraper
NoScraperResults == {e \in Recorded : e[2].error_message.kind = "No scraper for format"}

\* C16: a worker that finds no scraper for its hospital replies SKIPPED with
\* the reason "No scraper for format" and has made no request; such a
\* result is never a FAILURE, and the exit code of a run that reached its
\* end is what the other results alone make it.
C16_NoExtractorIsSkipped ==
  /\ [][\A h \in Hospitals :
          (worker[h].pc = "start" /\ worker'[h].pc = "put"
             /\ queue'[h][1].message = "- Skipped") =>
            /\ queue'[h][1].result.status = "SKIPPED"
            /\ queue'[h][1].result.error_type = "None"
            /\ queue'[h][1].result.error_message.kind = "No scraper for format"
            /\ ~worker'[h].http /\ tempFiles' = tempFiles]_vars
  /\ [](\A e \in NoScraperResults : e[2].status = "SKIPPED")
  /\ [](phase = "done" =>
          ((exitCode # 0) <=>
             \E e \in Recorded \ NoScraperResults : e[2].status = "FAILURE"))

\* a run in which no hospital had a scraper ended: all SKIPPED, exit code 0
C16_Witness ==
  /\ phase = "done" /\ exitCode = 0
  /\ Cardinality(NoScraperResults) = NumHospitals
  /\ stats.skipped = NumHospitals

\* a 4xx answer other than 429
Permanent4xx(a) == a.kind = "response" /\ a.code >= 400 /\ a.code < 500 /\ a.code # 429

\* any 5xx, 429, a timeout or a connection error
RetryableCondition(a) ==
  \/ a.kind = "response" /\ (a.code = 429 \/ (a.code >= 500 /\ a.code < 600))
  \/ a.kind \in {"Timeout", "ConnectionError"}

\* the server's first answer is a 4xx other than 429: one request was sent
\* and the call raises PermanentHTTPError
PermanentStopsAtOnce ==
  (http.requests # <<>> /\ Permanent4xx(http.requests[1])) =>
    /\ Len(http.requests) = 1
    /\ http.pc \in {"decide", "done"}
    /\ http.outcome = Raised("PermanentHTTPError")

LastAttemptRetryable ==
  /\ http.requests # <<>>
  /\ LET last == http.requests[Len(http.requests)]
     IN RetryableCondition(last)
        /\ (Len(http.requests) = 1
            \/ ~FollowsUp(http.url, http.requests[Len(http.requests) - 1])
            \/ last.kind # "response")

Carrying(code) ==
  {i \in 1..Len(norm.df) :
     /\ strip_leading_zero(norm.df[i].concept_code) = code
     /\ LowerVocabulary(norm.df[i].vocabulary_id) \in {"cpt", "cpt4", "hcpcs"}}

\* C19: the normalizer's output has at most one row per (cpt, type), and
\* its price is the maximum of that kind's prices over all input rows that
\* carry the code, whatever their vocabulary_id.
C19_OneRowPerCodeAndKind ==
  (norm # Idle /\ norm.pc # "input") =>
    /\ \A i, j \in 1..Len(norm.out) :
         (norm.out[i].cpt = norm.out[j].cpt /\ norm.out[i].type = norm.out[j].type)
           => i = j
    /\ \A i \in 1..Len(norm.out) :
         LET prices == UNION {norm.df[k][norm.out[i].type] : k \in Carrying(norm.out[i].cpt)}
         IN prices # {} /\ norm.out[i].price = Round2(Max(prices))

\* C20: every row of the normalizer's output has a price above zero at its
\* final two-decimal value.
C20_PricesPositive ==
  (norm # Idle /\ norm.pc # "input") =>
    \A i \in 1..Len(norm.out) : norm.out[i].price > 0

\* C21: every cpt value of the normalizer's output is a member of the
\* vocabulary index the normalizer was built with, an empty index included,
\* and matches ^[0-9A-Z]{5}$.
C21_CodesInVocabulary ==
  (norm # Idle /\ norm.pc # "input") =>
    \A i \in 1..Len(norm.out) :
      /\ norm.out[i].cpt \in norm.concept_codes
      /\ Len(norm.out[i].cpt) = 5
      /\ \A k \in 1..5 : norm.out[i].cpt[k] \in UpperOrDigit

\* C22: normalize applied to its own output succeeds and returns the same
\* rows in the same order.
C22_NormalizeIdempotent ==
  (norm # Idle /\ norm.pc = "again") =>
    /\ norm.again.kind = "returned"
    /\ norm.again.rows = norm.out

\* C23: one archive gives the same table and the same outcome through the
\* CSV extractor and through the ZIP extractor.
C23_SameThroughCsvAndZip ==
  (scraper # Idle /\ scraper.pc = "zip"
     /\ scraper.by_csv # NotFetched /\ scraper.by_zip # NotFetched) =>
    scraper.by_csv = scraper.by_zip

\* C24: a document whose root is the items array gives the same
\* intermediate table as the document that wraps the same array in
\* {"standard_charge_information": ...}.
C24_RootArrayLikeWrapped ==
  (scraper # Idle /\ scraper.pc = "json"
     /\ scraper.by_root # NotParsed /\ scraper.by_wrapped # NotParsed) =>
    scraper.by_root.rows = scraper.by_wrapped.rows

\* the items that carry a CPT or HCPCS code, in document order
ChargeItems ==
  LET Accepted(item) == item.type \in {"CPT", "hcpcs"}
  IN SelectSeq(scraper.items, Accepted)

\* C28: the JSON extractor's table holds one row per occurrence of a
\* (code, vocabulary) pair, each with its own item's gross and cash.
C28_OneRowPerOccurrence ==
  (scraper # Idle /\ scraper.pc = "json" /\ scraper.by_wrapped # NotParsed) =>
    /\ Len(scraper.by_wrapped.rows) = Len(ChargeItems)
    /\ \A i \in 1..Len(ChargeItems) :
         /\ scraper.by_wrapped.rows[i].concept_code = ChargeItems[i].code
         /\ scraper.by_wrapped.rows[i].gross = ChargeItems[i].gross
         /\ scraper.by_wrapped.rows[i].cash = ChargeItems[i].cash

\* the entries of a state file that carry a CCN and a file_url
Eligible(state) ==
  LET HasBoth(entry) == entry.ccn # "" /\ entry.file_url # ""
  IN SelectSeq(urlFiles[state], HasBoth)

\* the hospital records of a state, in list order
RecordsOf(state) ==
  LET InState(hospital) == hospital.state = state
  IN SelectSeq(hospitals, InState)

\* C25: every entry with a CCN (six alphanumeric characters, with or
\* without letters) and a file_url becomes exactly one hospital record.
C25_EveryEntryLoaded ==
  (hospitals # <<>>) =>
    \A i \in 1..Len(UrlStates) :
      /\ Len(RecordsOf(UrlStates[i])) = Len(Eligible(UrlStates[i]))
      /\ \A k \in 1..Len(Eligible(UrlStates[i])) :
           /\ RecordsOf(UrlStates[i])[k].ccn = Eligible(UrlStates[i])[k].ccn
           /\ RecordsOf(UrlStates[i])[k].file_url = Eligible(UrlStates[i])[k].file_url

\* C26: when an error comes up while the body is written, the temp file is
\* gone when stream_to_tempfile ends, and the error it ends with is that
\* write error.
C26_TempFileGoneOnWriteError ==
  (http # Idle /\ http.pc = "done" /\ http.error # "None") =>
    /\ ~http.temp
    /\ http.outcome = Raised(http.error)

\* C30: a call of get that meets only retryable failures sends exactly as
\* many requests as the max_retries the client was constructed with.
C30_RequestsFollowMaxRetries ==
  (http # Idle /\ http.pc = "done"
     /\ \A i \in 1..Len(http.requests) : RetryableCondition(http.requests[i])) =>
    Len(http.requests) = http.max_retries

\* the first line holds this word, in whatever case
HasWord(word) ==
  \E name \in scraper.first_line :
    \/ name = word
    \/ (word = "hcpcs" /\ name = "HCPCS")
    \/ (word = "hospital_name" /\ name = "Hospital_Name")

BothComputed ==
  /\ scraper # Idle /\ scraper.pc = "csv"
  /\ scraper.in_memory # NotComputed /\ scraper.large_file # NotComputed

\* C29 (as claimed): the header-skip count is 0 for the delimiter '|', else
\* 0 for a first line with service_code or hcpcs, else 2 for one with
\* hospital_name, else 0; and it is the same on both paths.
C29_HeaderSkipElseZero ==
  BothComputed =>
    /\ scraper.in_memory = scraper.large_file
    /\ scraper.in_memory =
         (IF scraper.delimiter = "|" THEN 0
          ELSE IF HasWord("service_code") \/ HasWord("hcpcs") THEN 0
          ELSE IF HasWord("hospital_name") THEN 2
          ELSE 0)

\* C29 (amended): the same, except that a first line without hospital_name
\* gets 0 only if it contains description, and 2 otherwise.
C29_HeaderSkipElseTwo ==
  BothComputed =>
    /\ scraper.in_memory = scraper.large_file
    /\ scraper.in_memory =
         (IF scraper.delimiter = "|" THEN 0
          ELSE IF HasWord("service_code") \/ HasWord("hcpcs") THEN 0
          ELSE IF HasWord("hospital_name") THEN 2
          ELSE IF HasWord("description") THEN 0
          ELSE 2)

\* a comma-delimited file whose first line is just "code": both paths skip 2
C29_Witness ==
  /\ BothComputed
  /\ scraper.delimiter = "," /\ scraper.first_line = {"code"}
  /\ scraper.in_memory = 2 /\ scraper.large_file = 2

====
